---- MODULE Spec2Model ----
(***************************************************************************)
(* Model of ogdf::RadixHeap<V, P> (include/ogdf/internal/heap/RadixHeap.h) *)
(* with priorities of an unsigned type P that is BITS bits wide.  Nodes    *)
(* are heap-allocated records linked by prev/next pointers; a pointer is   *)
(* a node address (a positive number) or NULL.                             *)
(***************************************************************************)
EXTENDS Integers, Sequences, FiniteSets

\* ------------------------------------------------------------------------
\* Bounds of the model
\* ------------------------------------------------------------------------
\* width of the priority type P in bits (BITS = sizeof(P) * 8)
BITS == 3
\* number of push calls in one run
MaxPush == 3
\* values pushed are 1..MaxVal
MaxVal == 2
\* number of push calls before the heap is drained and used again
MaxFirst == 1
\* width of std::size_t in bits
SizeBits == 16
\* number of Stack objects
NStacks == 2
\* number of stack elements allocated at one time
MaxElems == 3
\* push and emplace are called on a stack only while size() < MaxCount
MaxCount == 4

NULL == 0
Values == 1..MaxVal
Pow2(k) == 2^k
Priorities == 0..(Pow2(BITS) - 1)
\* std::size_t arithmetic wraps at SizeMod
SizeMod == Pow2(SizeBits)

\* ------------------------------------------------------------------------
\* Word operations on P
\* ------------------------------------------------------------------------
RECURSIVE Xor(_, _)
Xor(a, b) ==
    IF a = 0 /\ b = 0 THEN 0
    ELSE (((a % 2) + (b % 2)) % 2) + 2 * Xor(a \div 2, b \div 2)

RECURSIVE BitOr(_, _)
BitOr(a, b) ==
    IF a = 0 /\ b = 0 THEN 0
    ELSE (IF a % 2 = 1 \/ b % 2 = 1 THEN 1 ELSE 0) + 2 * BitOr(a \div 2, b \div 2)

\* P(1) << k, truncated to the width of P
Shl1(k) == Pow2(k) % Pow2(BITS)

\* variant: the position of the highest set bit counted from 0
RECURSIVE msbSetZeroBased(_)
msbSetZeroBased(mask) == IF mask <= 1 THEN 0 ELSE 1 + msbSetZeroBased(mask \div 2)

\* msbSet: number of right shifts until the mask is zero
RECURSIVE msbSet(_)
msbSet(mask) == IF mask = 0 THEN 0 ELSE 1 + msbSet(mask \div 2)

\* ------------------------------------------------------------------------
\* The heap object: its members, the allocated nodes (mem) and the log of
\* delete calls (deleted)
\* ------------------------------------------------------------------------
RadixHeapNode(value, priority) ==
    [value |-> value, priority |-> priority, prev |-> NULL, next |-> NULL]

RadixHeap ==
    [m_size |-> 0, m_minimum |-> 0, m_bucketMask |-> 0,
     m_buckets |-> [i \in 0..BITS |-> NULL],
     mem |-> [n \in {} |-> RadixHeapNode(0, 0)],
     deleted |-> <<>>]

size(h) == h.m_size
empty(h) == size(h) = 0

New(h, addr, value, priority) ==
    [h EXCEPT !.mem = [n \in (DOMAIN h.mem) \cup {addr} |->
                         IF n = addr THEN RadixHeapNode(value, priority) ELSE h.mem[n]]]

Delete(h, node) ==
    [h EXCEPT !.mem = [n \in (DOMAIN h.mem) \ {node} |-> h.mem[n]],
              !.deleted = Append(@, node)]

\* variant: the bucket index is taken from the priority alone
insertFromZero(h, node) ==
    LET ind == msbSet(h.mem[node].priority)
        head == h.m_buckets[ind]
        mem1 == [h.mem EXCEPT ![node].next = head]
        mem2 == IF head # NULL THEN [mem1 EXCEPT ![head].prev = node] ELSE mem1
    IN  [h EXCEPT !.mem = mem2,
                  !.m_buckets[ind] = node,
                  !.m_bucketMask = IF ind # 0 THEN BitOr(@, Shl1(BITS - ind)) ELSE @]

insert(h, node) ==
    LET ind == msbSet(Xor(h.mem[node].priority, h.m_minimum))
        head == h.m_buckets[ind]
        mem1 == [h.mem EXCEPT ![node].next = head]
        mem2 == IF head # NULL THEN [mem1 EXCEPT ![head].prev = node] ELSE mem1
    IN  [h EXCEPT !.mem = mem2,
                  !.m_buckets[ind] = node,
                  !.m_bucketMask = IF ind # 0 THEN BitOr(@, Shl1(BITS - ind)) ELSE @]

\* variant: m_size is not counted up
pushNoCount(h, addr, value, priority) ==
    insert(New(h, addr, value, priority), addr)

push(h, addr, value, priority) ==
    LET h1 == [h EXCEPT !.m_size = (@ + 1) % SizeMod]
        h2 == New(h1, addr, value, priority)
    IN  insert(h2, addr)

\* variant: no scan, the head of the bucket is taken
ScanMinHead(mem, it, min) == min

\* variant: the comparison of the scan is reversed
RECURSIVE ScanMinReversed(_, _, _)
ScanMinReversed(mem, it, min) ==
    IF it = NULL THEN min
    ELSE ScanMinReversed(mem, mem[it].next,
                         IF mem[it].priority > mem[min].priority THEN it ELSE min)

\* the scan of pop for the node of least priority (first one wins a tie)
RECURSIVE ScanMin(_, _, _)
ScanMin(mem, it, min) ==
    IF it = NULL THEN min
    ELSE ScanMin(mem, mem[it].next,
                 IF mem[it].priority < mem[min].priority THEN it ELSE min)

\* variant: prev of a re-inserted node is not reset
RECURSIVE RedistributeKeepPrev(_, _)
RedistributeKeepPrev(h, bucket) ==
    IF bucket = NULL THEN h
    ELSE LET next == h.mem[bucket].next
         IN  RedistributeKeepPrev(insert(h, bucket), next)

\* the redistribution loop of pop
RECURSIVE Redistribute(_, _)
Redistribute(h, bucket) ==
    IF bucket = NULL THEN h
    ELSE LET next == h.mem[bucket].next
             h1 == [h EXCEPT !.mem[bucket].prev = NULL]
         IN  Redistribute(insert(h1, bucket), next)

\* variant: bucket 0 keeps its head when the list runs empty
PopBucket0KeepLast(h) ==
    LET head == h.m_buckets[0]
        next == h.mem[head].next
        h2 == IF next # NULL
              THEN [h EXCEPT !.m_buckets[0] = next, !.mem[next].prev = NULL]
              ELSE h
    IN  [heap |-> h2, result |-> h.mem[head].value, node |-> head]

\* pop when m_buckets[0] != nullptr
PopBucket0(h) ==
    LET head == h.m_buckets[0]
        next == h.mem[head].next
        h1 == [h EXCEPT !.m_buckets[0] = next]
        h2 == IF next # NULL THEN [h1 EXCEPT !.mem[next].prev = NULL] ELSE h1
    IN  [heap |-> h2, result |-> h.mem[head].value, node |-> head]

\* variant: the occupancy bit of the drained bucket is left set
DrainBucketKeepMask(h, ind) == [h EXCEPT !.m_buckets[ind] = NULL]

\* pop: take the list out of bucket ind and clear its occupancy bit
DrainBucket(h, ind) ==
    [h EXCEPT !.m_buckets[ind] = NULL,
              !.m_bucketMask = IF ind # 0 THEN Xor(@, Shl1(BITS - ind)) ELSE @]

\* pop: unlink min from its neighbours in the list taken out
Unlink(mem, min) ==
    LET mprev == mem[min].prev
        mnext == mem[min].next
        mem1 == IF mprev # NULL THEN [mem EXCEPT ![mprev].next = mnext] ELSE mem
    IN  IF mnext # NULL THEN [mem1 EXCEPT ![mnext].prev = mprev] ELSE mem1

\* variant: m_minimum is not moved to the priority of min
PopScanKeepMinimum(h) ==
    LET ind == BITS + 1 - msbSet(h.m_bucketMask)
        bucket0 == h.m_buckets[ind]
        h1 == DrainBucket(h, ind)
        min == ScanMin(h1.mem, bucket0, bucket0)
        bucket == IF h1.mem[min].prev # NULL THEN bucket0 ELSE h1.mem[min].next
        h2 == [h1 EXCEPT !.mem = Unlink(h1.mem, min)]
        h3 == Delete(h2, min)
    IN  [heap |-> Redistribute(h3, bucket), result |-> h1.mem[min].value, node |-> min]

\* variant: the value is read from the head of the bucket, not from min
PopScanHeadValue(h) ==
    LET ind == BITS + 1 - msbSet(h.m_bucketMask)
        bucket0 == h.m_buckets[ind]
        h1 == DrainBucket(h, ind)
        min == ScanMin(h1.mem, bucket0, bucket0)
        bucket == IF h1.mem[min].prev # NULL THEN bucket0 ELSE h1.mem[min].next
        h2 == [h1 EXCEPT !.mem = Unlink(h1.mem, min),
                         !.m_minimum = h1.mem[min].priority]
        h3 == Delete(h2, min)
    IN  [heap |-> Redistribute(h3, bucket), result |-> h1.mem[bucket0].value, node |-> min]

\* pop when m_buckets[0] == nullptr
PopScan(h) ==
    LET ind == BITS + 1 - msbSet(h.m_bucketMask)
        bucket0 == h.m_buckets[ind]
        h1 == DrainBucket(h, ind)
        min == ScanMin(h1.mem, bucket0, bucket0)
        bucket == IF h1.mem[min].prev # NULL THEN bucket0 ELSE h1.mem[min].next
        h2 == [h1 EXCEPT !.mem = Unlink(h1.mem, min),
                         !.m_minimum = h1.mem[min].priority]
        h3 == Delete(h2, min)
    IN  [heap |-> Redistribute(h3, bucket), result |-> h1.mem[min].value, node |-> min]

pop(h) ==
    LET h1 == [h EXCEPT !.m_size = (@ - 1) % SizeMod]
    IN  IF h1.m_buckets[0] # NULL THEN PopBucket0(h1) ELSE PopScan(h1)

\* the destructor: every bucket's list is walked and each node deleted
RECURSIVE DeleteList(_, _)
DeleteList(h, it) ==
    IF it = NULL THEN h
    ELSE LET next == h.mem[it].next
         IN  DeleteList(Delete(h, it), next)

RECURSIVE DestroyFrom(_, _)
DestroyFrom(h, i) ==
    IF i > BITS THEN h
    ELSE DestroyFrom(DeleteList(h, h.m_buckets[i]), i + 1)

\* variant: the loop over the buckets starts at bucket 1
DestructorSkipFirst(h) == DestroyFrom(h, 1)

Destructor(h) == DestroyFrom(h, 0)

\* ------------------------------------------------------------------------
\* Views of the linked structure
\* ------------------------------------------------------------------------
\* the nodes met when following next from it, at most fuel of them
RECURSIVE Walk(_, _, _)
Walk(mem, it, fuel) ==
    IF it = NULL \/ fuel = 0 THEN <<>>
    ELSE <<it>> \o Walk(mem, mem[it].next, fuel - 1)

\* the list of bucket i, head first
BucketList(h, i) == Walk(h.mem, h.m_buckets[i], Cardinality(DOMAIN h.mem))

Range(s) == {s[k] : k \in 1..Len(s)}

\* the nodes linked in some bucket
Linked(h) == UNION {Range(BucketList(h, i)) : i \in 0..BITS}

RECURSIVE LinkedCountFrom(_, _)
LinkedCountFrom(h, i) ==
    IF i > BITS THEN 0 ELSE Len(BucketList(h, i)) + LinkedCountFrom(h, i + 1)

\* the number of list cells of all buckets together
LinkedCount(h) == LinkedCountFrom(h, 0)

\* bit k of a word
Bit(word, k) == (word \div Pow2(k)) % 2

\* the address operator new returns: one never handed out before
NextAddr(h) == Cardinality(DOMAIN h.mem) + Len(h.deleted) + 1

\* ------------------------------------------------------------------------
\* StackPure<E> and Stack<E> (include/ogdf/basic/Stack.h).  A world w holds
\* the allocated elements (mem) and the Stack objects (S); a Stack object is
\* its StackPure base (m_head) and m_count.
\* ------------------------------------------------------------------------
Element(pNext, x) == [m_next |-> pNext, m_x |-> x]

\* the address OGDF_NEW returns: the lowest one not in use
NewElement(mem) ==
    CHOOSE a \in 1..(Cardinality(DOMAIN mem) + 1) :
        a \notin DOMAIN mem /\ \A b \in 1..(a - 1) : b \in DOMAIN mem

Store(mem, a, e) == [n \in (DOMAIN mem) \cup {a} |-> IF n = a THEN e ELSE mem[n]]

Free(mem, a) == [n \in (DOMAIN mem) \ {a} |-> mem[n]]

PureEmpty(w, i) == w.S[i].m_head = NULL

PureTop(w, i) == w.mem[w.S[i].m_head].m_x

\* variant: the new element is not linked to the old head
PurePushAlone(w, i, x) ==
    LET a == NewElement(w.mem)
    IN  [w EXCEPT !.mem = Store(@, a, Element(NULL, x)), !.S[i].m_head = a]

PurePush(w, i, x) ==
    LET a == NewElement(w.mem)
    IN  [w EXCEPT !.mem = Store(@, a, Element(w.S[i].m_head, x)), !.S[i].m_head = a]

PureEmplace(w, i, x) ==
    LET a == NewElement(w.mem)
    IN  [w EXCEPT !.mem = Store(@, a, Element(w.S[i].m_head, x)), !.S[i].m_head = a]

PurePop(w, i) ==
    LET pX == w.S[i].m_head
        x == w.mem[pX].m_x
    IN  [world |-> [w EXCEPT !.S[i].m_head = w.mem[pX].m_next, !.mem = Free(@, pX)],
         result |-> x]

RECURSIVE PureClear(_, _)
PureClear(w, i) ==
    IF w.S[i].m_head = NULL THEN w
    ELSE LET pX == w.S[i].m_head
         IN  PureClear([w EXCEPT !.S[i].m_head = w.mem[pX].m_next,
                                 !.mem = Free(@, pX)], i)

\* the loop of copy: p is the place the next new element is stored to,
\* <<"head", i>> for m_head of stack i or <<"next", a>> for m_next of element a
RECURSIVE CopyLoop(_, _, _)
CopyLoop(w, p, q) ==
    IF q = NULL THEN w
    ELSE LET a == NewElement(w.mem)
             mem1 == Store(w.mem, a, Element(NULL, w.mem[q].m_x))
             w1 == IF p[1] = "head"
                   THEN [w EXCEPT !.mem = mem1, !.S[p[2]].m_head = a]
                   ELSE [w EXCEPT !.mem = [mem1 EXCEPT ![p[2]].m_next = a]]
         IN  CopyLoop(w1, <<"next", a>>, w1.mem[q].m_next)

\* this = stack i, S = stack j
PureCopy(w, i, j) == CopyLoop(w, <<"head", i>>, w.S[j].m_head)

PureCopyConstruct(w, i, j) == PureCopy([w EXCEPT !.S[i].m_head = NULL], i, j)

PureMoveConstruct(w, i, j) ==
    LET w1 == [w EXCEPT !.S[i].m_head = w.S[j].m_head]
    IN  [w1 EXCEPT !.S[j].m_head = NULL]

PureAssign(w, i, j) == PureCopy(PureClear(w, i), i, j)

PureMoveAssign(w, i, j) ==
    LET w1 == PureClear(w, i)
        w2 == [w1 EXCEPT !.S[i].m_head = w1.S[j].m_head]
    IN  [w2 EXCEPT !.S[j].m_head = NULL]

StackConstruct(w, i) == [w EXCEPT !.S[i] = [constructed |-> TRUE, m_head |-> NULL, m_count |-> 0]]

StackCopyConstruct(w, i, j) ==
    LET w1 == PureCopyConstruct([w EXCEPT !.S[i].constructed = TRUE], i, j)
    IN  [w1 EXCEPT !.S[i].m_count = w1.S[j].m_count]

StackMoveConstruct(w, i, j) ==
    LET w1 == PureMoveConstruct([w EXCEPT !.S[i].constructed = TRUE], i, j)
        w2 == [w1 EXCEPT !.S[i].m_count = w1.S[j].m_count]
    IN  [w2 EXCEPT !.S[j].m_count = 0]

StackDestruct(w, i) == [PureClear(w, i) EXCEPT !.S[i].constructed = FALSE]

StackEmpty(w, i) == PureEmpty(w, i)

StackSize(w, i) == w.S[i].m_count

StackTop(w, i) == PureTop(w, i)

StackAssign(w, i, j) ==
    LET w1 == PureAssign(w, i, j)
    IN  [w1 EXCEPT !.S[i].m_count = w1.S[j].m_count]

StackMoveAssign(w, i, j) ==
    LET w1 == PureMoveAssign(w, i, j)
        w2 == [w1 EXCEPT !.S[i].m_count = w1.S[j].m_count]
    IN  [w2 EXCEPT !.S[j].m_count = 0]

StackPush(w, i, x) == PurePush([w EXCEPT !.S[i].m_count = (@ + 1) % SizeMod], i, x)

StackEmplace(w, i, x) == PureEmplace([w EXCEPT !.S[i].m_count = (@ + 1) % SizeMod], i, x)

StackPop(w, i) == PurePop([w EXCEPT !.S[i].m_count = (@ - 1) % SizeMod], i)

StackClear(w, i) == [PureClear(w, i) EXCEPT !.S[i].m_count = 0]

\* the elements of stack i, top first
RECURSIVE StackWalk(_, _, _)
StackWalk(mem, it, fuel) ==
    IF it = NULL \/ fuel = 0 THEN <<>>
    ELSE <<it>> \o StackWalk(mem, mem[it].m_next, fuel - 1)

StackElements(w, i) == StackWalk(w.mem, w.S[i].m_head, Cardinality(DOMAIN w.mem))

\* the values of stack i, top first
StackValues(w, i) == [k \in 1..Len(StackElements(w, i)) |-> w.mem[StackElements(w, i)[k]].m_x]

\* two default-constructed stacks
StackWorld ==
    [mem |-> [n \in {} |-> Element(NULL, 0)],
     S |-> [i \in 1..NStacks |-> [constructed |-> TRUE, m_head |-> NULL, m_count |-> 0]]]

\* ------------------------------------------------------------------------
\* State
\* ------------------------------------------------------------------------
VARIABLES
    heap,      \* the RadixHeap object
    alive,     \* FALSE once the destructor has run
    op,        \* the last operation: "new", "push", "pop", "destroy", "fork"
    ret,       \* what the last push (node handle) or pop (value) returned
    pushed,    \* history: the (value, priority) of each push, by node address
    popped,    \* history: the value, priority and node of each pop
    reuse,     \* a second, freshly constructed heap run side by side with
               \* the drained one (used by SpecReuse only)
    moved,     \* history: how often the redistribution of pop has re-inserted
               \* each node, by node address
    stk,       \* the world of the Stack objects
    call,      \* the last Stack call: its name, the stack it was called on,
               \* its argument and what it returned
    hist       \* history: for each stack the values pushed and not yet
               \* popped, latest first

heapvars == <<heap, alive, op, ret, pushed, popped, reuse, moved>>
stackvars == <<stk, call, hist>>
vars == <<heap, alive, op, ret, pushed, popped, reuse, moved, stk, call, hist>>

NoCall == [name |-> "new", this |-> 0, arg |-> 0, ret |-> 0]

NoReuse ==
    [forked |-> FALSE, fresh |-> RadixHeap, ret |-> NULL, priority |-> 0, tied |-> FALSE]

Init ==
    /\ heap = RadixHeap
    /\ alive = TRUE
    /\ op = "new"
    /\ ret = NULL
    /\ pushed = <<>>
    /\ popped = <<>>
    /\ reuse = NoReuse
    /\ moved = <<>>
    /\ stk = StackWorld
    /\ call = NoCall
    /\ hist = [i \in 1..NStacks |-> <<>>]

\* heap.push(value, priority)
DoPush(value, priority) ==
    /\ heap' = push(heap, NextAddr(heap), value, priority)
    /\ ret' = NextAddr(heap)
    /\ pushed' = Append(pushed, [value |-> value, priority |-> priority])
    /\ moved' = Append(moved, 0)
    /\ op' = "push"
    /\ UNCHANGED <<alive, popped>>
    /\ UNCHANGED stackvars

\* the nodes of the bucket that pop takes out to scan (none on the bucket-0 path)
Drained(h) ==
    IF h.m_buckets[0] # NULL THEN {}
    ELSE Range(BucketList(h, BITS + 1 - msbSet(h.m_bucketMask)))

\* heap.pop()
DoPop ==
    /\ LET r == pop(heap)
       IN  /\ heap' = r.heap
           /\ ret' = r.result
           /\ moved' = [n \in 1..Len(moved) |->
                           IF n \in Drained(heap) \ {r.node} THEN moved[n] + 1
                           ELSE moved[n]]
           /\ popped' = Append(popped, [value |-> r.result,
                                        priority |-> heap.mem[r.node].priority,
                                        node |-> r.node])
    /\ op' = "pop"
    /\ UNCHANGED <<alive, pushed>>
    /\ UNCHANGED stackvars

\* push(value, priority) with priority >= m_minimum
Push ==
    /\ alive
    /\ Len(pushed) < MaxPush
    /\ \E value \in Values, priority \in Priorities :
          /\ priority >= heap.m_minimum
          /\ DoPush(value, priority)
    /\ UNCHANGED reuse

\* pop() on a non-empty heap
Pop ==
    /\ alive
    /\ ~empty(heap)
    /\ DoPop
    /\ UNCHANGED reuse

\* ~RadixHeap()
Destroy ==
    /\ alive
    /\ heap' = Destructor(heap)
    /\ alive' = FALSE
    /\ op' = "destroy"
    /\ UNCHANGED <<ret, pushed, popped, reuse, moved>>
    /\ UNCHANGED stackvars

Next == Push \/ Pop \/ Destroy

Spec == Init /\ [][Next]_vars

\* ------------------------------------------------------------------------
\* Calls that break a precondition.  The source checks neither; what the
\* heap does afterwards is not modelled (alive becomes FALSE).
\* ------------------------------------------------------------------------
\* push(value, priority) with priority < m_minimum: push runs as always
PushBelow ==
    /\ alive
    /\ Len(pushed) < MaxPush
    /\ \E value \in Values, priority \in Priorities :
          /\ priority < heap.m_minimum
          /\ heap' = push(heap, NextAddr(heap), value, priority)
          /\ ret' = NextAddr(heap)
          /\ pushed' = Append(pushed, [value |-> value, priority |-> priority])
    /\ moved' = Append(moved, 0)
    /\ op' = "push_below"
    /\ alive' = FALSE
    /\ UNCHANGED <<popped, reuse>>
    /\ UNCHANGED stackvars

\* pop() on an empty heap: m_size-- wraps, bucket 0 is empty, ind is
\* BITS + 1 - msbSet(0) = BITS + 1, and from the access to m_buckets[ind]
\* and the shift by 8 * sizeof(P) - ind = -1 on the behaviour is undefined;
\* the mask may end up with any value
PopEmpty ==
    /\ alive
    /\ empty(heap)
    /\ heap.m_buckets[0] = NULL
    /\ BITS + 1 - msbSet(heap.m_bucketMask) > BITS
    /\ \E mask \in Priorities :
          heap' = [heap EXCEPT !.m_size = (@ - 1) % SizeMod, !.m_bucketMask = mask]
    /\ op' = "pop_empty"
    /\ alive' = FALSE
    /\ UNCHANGED <<ret, pushed, popped, reuse, moved>>
    /\ UNCHANGED stackvars

NextUnchecked == Push \/ Pop \/ PushBelow \/ PopEmpty

SpecUnchecked == Init /\ [][NextUnchecked]_vars

\* ------------------------------------------------------------------------
\* Reuse: the heap is used, drained by pop, and then driven with the same
\* calls as a freshly constructed heap
\* ------------------------------------------------------------------------
FirstPush ==
    /\ ~reuse.forked
    /\ Len(pushed) < MaxFirst
    /\ \E value \in Values, priority \in Priorities :
          /\ priority >= heap.m_minimum
          /\ DoPush(value, priority)
    /\ UNCHANGED reuse

FirstPop ==
    /\ ~reuse.forked
    /\ ~empty(heap)
    /\ DoPop
    /\ UNCHANGED reuse

\* the heap has been drained by pop: construct the fresh heap next to it
Fork ==
    /\ ~reuse.forked
    /\ empty(heap)
    /\ Len(popped) >= 1
    /\ reuse' = [NoReuse EXCEPT !.forked = TRUE]
    /\ op' = "fork"
    /\ UNCHANGED <<heap, alive, ret, pushed, popped, moved>>
    /\ UNCHANGED stackvars

PushBoth ==
    /\ reuse.forked
    /\ NextAddr(reuse.fresh) <= MaxPush
    /\ \E value \in Values, priority \in Priorities :
          /\ priority >= heap.m_minimum
          /\ DoPush(value, priority)
          /\ reuse' = [reuse EXCEPT
                 !.fresh = push(@, NextAddr(@), value, priority),
                 !.tied = @ \/ \E i \in 0..BITS :
                                 \E k \in 1..Len(BucketList(heap, i)) :
                                    heap.mem[BucketList(heap, i)[k]].priority = priority]

PopBoth ==
    /\ reuse.forked
    /\ ~empty(heap)
    /\ DoPop
    /\ LET r == pop(reuse.fresh)
       IN  reuse' = [reuse EXCEPT !.fresh = r.heap,
                                  !.ret = r.result,
                                  !.priority = reuse.fresh.mem[r.node].priority]

NextReuse == FirstPush \/ FirstPop \/ Fork \/ PushBoth \/ PopBoth

SpecReuse == Init /\ [][NextReuse]_vars

\* ------------------------------------------------------------------------
\* The calls on the Stack objects.  hist follows push, emplace and pop; any
\* other call that changes a stack sets hist to what the stacks then hold.
\* ------------------------------------------------------------------------
Constructed(i) == stk.S[i].constructed

Allocated(w) == Cardinality(DOMAIN w.mem)

Holds(w) == [i \in 1..NStacks |-> IF w.S[i].constructed THEN StackValues(w, i) ELSE <<>>]

SPush ==
    \E i \in 1..NStacks, x \in Values :
        /\ Constructed(i)
        /\ Allocated(stk) < MaxElems
        /\ StackSize(stk, i) < MaxCount
        /\ stk' = StackPush(stk, i, x)
        /\ call' = [name |-> "push", this |-> i, arg |-> x, ret |-> x]
        /\ hist' = [hist EXCEPT ![i] = <<x>> \o @]
        /\ UNCHANGED heapvars

SEmplace ==
    \E i \in 1..NStacks, x \in Values :
        /\ Constructed(i)
        /\ Allocated(stk) < MaxElems
        /\ StackSize(stk, i) < MaxCount
        /\ stk' = StackEmplace(stk, i, x)
        /\ call' = [name |-> "emplace", this |-> i, arg |-> x, ret |-> x]
        /\ hist' = [hist EXCEPT ![i] = <<x>> \o @]
        /\ UNCHANGED heapvars

SPop ==
    \E i \in 1..NStacks :
        /\ Constructed(i)
        /\ ~PureEmpty(stk, i)
        /\ stk' = StackPop(stk, i).world
        /\ call' = [name |-> "pop", this |-> i, arg |-> 0, ret |-> StackPop(stk, i).result]
        /\ hist' = [hist EXCEPT ![i] = Tail(@)]
        /\ UNCHANGED heapvars

STop ==
    \E i \in 1..NStacks :
        /\ Constructed(i)
        /\ ~PureEmpty(stk, i)
        /\ call' = [name |-> "top", this |-> i, arg |-> 0, ret |-> StackTop(stk, i)]
        /\ UNCHANGED <<stk, hist>>
        /\ UNCHANGED heapvars

SClear ==
    \E i \in 1..NStacks :
        /\ Constructed(i)
        /\ stk' = StackClear(stk, i)
        /\ call' = [name |-> "clear", this |-> i, arg |-> 0, ret |-> 0]
        /\ hist' = Holds(stk')
        /\ UNCHANGED heapvars

\* this = stack i, S = stack j; i = j is the self-assignment
SCopyAssign ==
    \E i \in 1..NStacks, j \in 1..NStacks :
        /\ Constructed(i) /\ Constructed(j)
        /\ Allocated(PureClear(stk, i)) + Len(StackElements(PureClear(stk, i), j)) <= MaxElems
        /\ stk' = StackAssign(stk, i, j)
        /\ call' = [name |-> "copy_assign", this |-> i, arg |-> j, ret |-> 0]
        /\ hist' = Holds(stk')
        /\ UNCHANGED heapvars

SMoveAssign ==
    \E i \in 1..NStacks, j \in 1..NStacks :
        /\ Constructed(i) /\ Constructed(j)
        /\ stk' = StackMoveAssign(stk, i, j)
        /\ call' = [name |-> "move_assign", this |-> i, arg |-> j, ret |-> 0]
        /\ hist' = Holds(stk')
        /\ UNCHANGED heapvars

SConstruct ==
    \E i \in 1..NStacks :
        /\ ~Constructed(i)
        /\ stk' = StackConstruct(stk, i)
        /\ call' = [name |-> "construct", this |-> i, arg |-> 0, ret |-> 0]
        /\ hist' = Holds(stk')
        /\ UNCHANGED heapvars

SCopyConstruct ==
    \E i \in 1..NStacks, j \in 1..NStacks :
        /\ ~Constructed(i) /\ Constructed(j)
        /\ Allocated(stk) + Len(StackElements(stk, j)) <= MaxElems
        /\ stk' = StackCopyConstruct(stk, i, j)
        /\ call' = [name |-> "copy_construct", this |-> i, arg |-> j, ret |-> 0]
        /\ hist' = Holds(stk')
        /\ UNCHANGED heapvars

SMoveConstruct ==
    \E i \in 1..NStacks, j \in 1..NStacks :
        /\ ~Constructed(i) /\ Constructed(j)
        /\ stk' = StackMoveConstruct(stk, i, j)
        /\ call' = [name |-> "move_construct", this |-> i, arg |-> j, ret |-> 0]
        /\ hist' = Holds(stk')
        /\ UNCHANGED heapvars

SDestruct ==
    \E i \in 1..NStacks :
        /\ Constructed(i)
        /\ stk' = StackDestruct(stk, i)
        /\ call' = [name |-> "destruct", this |-> i, arg |-> 0, ret |-> 0]
        /\ hist' = Holds(stk')
        /\ UNCHANGED heapvars

\* only the four stack operations
NextLifo == SPush \/ SEmplace \/ SPop \/ STop

SpecLifo == Init /\ [][NextLifo]_vars

\* every call of Stack
NextStack ==
    \/ SPush \/ SEmplace \/ SPop \/ STop \/ SClear
    \/ SCopyAssign \/ SMoveAssign
    \/ SConstruct \/ SCopyConstruct \/ SMoveConstruct \/ SDestruct

SpecStack == Init /\ [][NextStack]_vars

\* ------------------------------------------------------------------------
\* Properties
\* ------------------------------------------------------------------------
PriorityOf(h, n) == h.mem[n].priority

\* C1: every pop() on a non-empty heap returns the value of a linked node
\* whose priority is <= the priority of every node linked just before the
\* call, and the nodes linked afterwards are the former ones without exactly
\* that node.
PopReturnsMinimum ==
    [][op' = "pop" =>
         \E n \in Linked(heap) :
            /\ ret' = heap.mem[n].value
            /\ \A m \in Linked(heap) : PriorityOf(heap, n) <= PriorityOf(heap, m)
            /\ Linked(heap') = Linked(heap) \ {n}
            /\ LinkedCount(heap') = LinkedCount(heap) - 1]_vars

\* a pop that had three nodes of different priorities to choose from
PopChoseAmongSeveral ==
    /\ op = "pop"
    /\ Len(popped) = 1
    /\ size(heap) = 2
    /\ \A n \in Linked(heap) : PriorityOf(heap, n) > popped[1].priority
    /\ Cardinality({PriorityOf(heap, n) : n \in Linked(heap)}) = 2

\* C2: the priorities of the nodes returned by successive pops never
\* decrease, whatever pushes of priority >= m_minimum come in between.
PopMonotone ==
    \A j \in 1..(Len(popped) - 1) : popped[j].priority <= popped[j + 1].priority

\* two pops of rising priority, the second one of a node pushed after the first pop
PoppedRising ==
    /\ Len(popped) >= 2
    /\ popped[1].priority < popped[2].priority
    /\ popped[1].node = 2
    /\ popped[2].node = 3
    /\ ~empty(heap)

\* C3: once the heap has been drained, every pushed (value, priority) pair
\* has been returned by exactly one pop, with its own value, and the returned
\* sequence is sorted by priority.
DrainReturnsAll ==
    (alive /\ empty(heap)) =>
        /\ Len(popped) = Len(pushed)
        /\ \A a \in 1..Len(pushed) :
              Cardinality({j \in 1..Len(popped) : popped[j].node = a}) = 1
        /\ \A j \in 1..Len(popped) :
              /\ popped[j].node \in 1..Len(pushed)
              /\ popped[j].value = pushed[popped[j].node].value
              /\ popped[j].priority = pushed[popped[j].node].priority
        /\ \A j \in 1..(Len(popped) - 1) : popped[j].priority <= popped[j + 1].priority

\* three pushes in unsorted order with different values, then drained
DrainedThree ==
    /\ alive
    /\ empty(heap)
    /\ Len(pushed) = 3
    /\ Len(popped) = 3
    /\ pushed[1].priority > pushed[2].priority
    /\ pushed[3].priority > pushed[1].priority
    /\ pushed[1].value # pushed[2].value

\* C4: size() is the number of pushes minus the number of pops, it is the
\* number of nodes linked in the buckets, empty() is size() == 0, and a
\* freshly constructed heap has size() 0.
SizeConserved ==
    alive =>
        /\ size(heap) = Len(pushed) - Len(popped)
        /\ size(heap) = LinkedCount(heap)
        /\ size(heap) = Cardinality(Linked(heap))
        /\ empty(heap) <=> (size(heap) = 0)
        /\ (op = "new" => size(heap) = 0)

\* pushes and pops interleaved, with nodes left in the heap
SizeAfterMixedCalls ==
    /\ alive
    /\ Len(pushed) = 3
    /\ Len(popped) = 1
    /\ op = "push"
    /\ size(heap) = 2

\* C5 as stated: once drained and forked, every call gives the same size(),
\* the same empty() and, for a pop, the same value on the drained heap as on
\* the freshly constructed one.
ReuseSameValues ==
    (reuse.forked /\ op \in {"push", "pop"}) =>
        /\ size(heap) = size(reuse.fresh)
        /\ empty(heap) <=> empty(reuse.fresh)
        /\ (op = "pop" => ret = reuse.ret)

\* C5 as amended: once drained and forked, every call gives the same size()
\* and empty(), every pop returns a node of the same priority on the drained
\* heap as on the fresh one, and the same value as long as no push had the
\* priority of a node then in the heap.
ReuseSamePriorities ==
    (reuse.forked /\ op \in {"push", "pop"}) =>
        /\ size(heap) = size(reuse.fresh)
        /\ empty(heap) <=> empty(reuse.fresh)
        /\ (op = "pop" =>
               /\ popped[Len(popped)].priority = reuse.priority
               /\ (~reuse.tied => ret = reuse.ret))

\* a heap drained at a minimum above 0, then two pushes and two pops
ReusedAfterDrain ==
    /\ reuse.forked
    /\ op = "pop"
    /\ Len(popped) = 3
    /\ pushed[1].priority > 0
    /\ popped[2].priority < popped[3].priority
    /\ popped[2].value # popped[3].value
    /\ ~reuse.tied

\* C6: after a pop the node it returned is deallocated, and the allocated
\* nodes are exactly the nodes linked in the buckets.
PopFreesNode ==
    (alive /\ op = "pop") =>
        /\ popped[Len(popped)].node \notin DOMAIN heap.mem
        /\ DOMAIN heap.mem = Linked(heap)

\* C7: the destructor deletes every node linked in a bucket, each once, and
\* none that pop had deleted before.
DestructorFreesLinked ==
    [][op' = "destroy" =>
         LET before == Len(heap.deleted)
             after == Len(heap'.deleted)
             byDtor == SubSeq(heap'.deleted, before + 1, after)
         IN  /\ SubSeq(heap'.deleted, 1, before) = heap.deleted
             /\ Range(byDtor) = Linked(heap)
             /\ Len(byDtor) = Cardinality(Linked(heap))
             /\ Range(byDtor) \cap Range(heap.deleted) = {}]_vars

\* a heap destroyed with two nodes linked after a pop had deleted a third
DestroyedWithNodes ==
    /\ op = "destroy"
    /\ Len(popped) = 1
    /\ Len(heap.deleted) = 3

\* the nodes pushed and not yet returned by pop
Live == (1..Len(pushed)) \ {popped[j].node : j \in 1..Len(popped)}

\* C8: after every push and pop each live node is linked in exactly one
\* bucket, the one of index msbSet(priority XOR m_minimum).
BucketPlacement ==
    alive =>
        /\ Linked(heap) = Live
        /\ LinkedCount(heap) = Cardinality(Live)
        /\ \A i \in 0..BITS : \A n \in Range(BucketList(heap, i)) :
              i = msbSet(Xor(PriorityOf(heap, n), heap.m_minimum))

\* after a pop that raised m_minimum, a node sits in a bucket the pop did
\* not drain and another in a bucket below it
PlacedAfterMinimumMoved ==
    /\ alive
    /\ op = "pop"
    /\ heap.m_minimum > 0
    /\ heap.m_buckets[BITS] # NULL
    /\ \E i \in 1..(BITS - 1) : heap.m_buckets[i] # NULL

MaskMatchesBuckets(h) ==
    \A i \in 1..BITS : (Bit(h.m_bucketMask, BITS - i) = 1) <=> (h.m_buckets[i] # NULL)

\* the bucket the scan path of pop drains
LowestBucket(h) ==
    CHOOSE i \in 1..BITS :
        h.m_buckets[i] # NULL /\ \A j \in 1..(i - 1) : h.m_buckets[j] = NULL

\* C9: after every push and pop, bit BITS - i of m_bucketMask is set exactly
\* when bucket i is non-empty (i in 1..BITS); a pop that drains a bucket finds
\* its bit set and leaves the bit clear and the bucket empty.
MaskInvariant ==
    /\ [](alive => MaskMatchesBuckets(heap))
    /\ [][(op' = "pop" /\ heap.m_buckets[0] = NULL) =>
             LET i == LowestBucket(heap)
             IN  /\ Bit(heap.m_bucketMask, BITS - i) = 1
                 /\ Bit(heap'.m_bucketMask, BITS - i) = 0
                 /\ heap'.m_buckets[i] = NULL]_vars

\* a pop drained a bucket, redistributed a node, and another bucket stayed full
MaskAfterRedistribution ==
    /\ alive
    /\ op = "pop"
    /\ heap.m_bucketMask # 0
    /\ heap.m_buckets[0] = NULL
    /\ Cardinality({i \in 1..BITS : heap.m_buckets[i] # NULL}) = 2
    /\ Len(heap.deleted) = 1

\* C10: every node linked in the heap has priority >= m_minimum.
LiveAboveMinimum ==
    alive => \A n \in Linked(heap) : PriorityOf(heap, n) >= heap.m_minimum

\* m_minimum was raised by a pop while other nodes stayed in the heap
MinimumRaisedBelowLive ==
    /\ alive
    /\ op = "pop"
    /\ heap.m_minimum > 0
    /\ size(heap) = 2

\* C11: m_minimum is 0 until the first pop, after a pop it is the priority
\* of the node that pop returned (on either path), it never decreases, and
\* push leaves it alone.
MinimumTracksPop ==
    /\ [](alive => heap.m_minimum =
                     (IF popped = <<>> THEN 0 ELSE popped[Len(popped)].priority))
    /\ [][alive' => /\ heap'.m_minimum >= heap.m_minimum
                    /\ (op' = "push" => heap'.m_minimum = heap.m_minimum)]_vars

\* a pop by the bucket-0 path after a pop by the scan path had raised
\* m_minimum, and a push after that
MinimumAfterBothPaths ==
    /\ alive
    /\ op = "push"
    /\ Len(popped) = 2
    /\ popped[1].priority > 0
    /\ popped[2].priority = popped[1].priority
    /\ heap.m_minimum = popped[2].priority
    /\ Len(heap.deleted) = 1

\* the bucket in which node n is linked
BucketOf(h, n) == CHOOSE i \in 0..BITS : n \in Range(BucketList(h, i))

\* C15: a pop that drains bucket i >= 1 re-inserts every remaining node of
\* that bucket into a bucket of index below i; no push or pop moves a node to
\* a bucket of higher index; and a node that has been re-inserted k times
\* sits in a bucket of index at most BITS - k, so k is at most BITS.
RedistributionDescends ==
    /\ [][(op' = "pop" /\ alive') =>
             /\ \A n \in Drained(heap) \cap Linked(heap') :
                   BucketOf(heap', n) < BITS + 1 - msbSet(heap.m_bucketMask)
             /\ \A n \in Linked(heap) \cap Linked(heap') :
                   BucketOf(heap', n) <= BucketOf(heap, n)]_vars
    /\ [][(op' = "push" /\ alive') =>
             \A n \in Linked(heap) : BucketOf(heap', n) = BucketOf(heap, n)]_vars
    /\ [](alive => \A n \in Linked(heap) :
                      /\ moved[n] + BucketOf(heap, n) <= BITS
                      /\ moved[n] <= BITS)

\* a node that two pops have re-inserted, each time into a lower bucket
MovedTwice ==
    /\ alive
    /\ op = "pop"
    /\ \E n \in Linked(heap) : moved[n] = 2 /\ BucketOf(heap, n) = 1

\* C16: whenever pop would take the scan path (heap non-empty, bucket 0
\* empty), ind = BITS + 1 - msbSet(m_bucketMask) lies in 1..BITS, bucket ind
\* is non-empty, all buckets 1..ind-1 are empty, and bit BITS - ind, the one
\* insert sets for bucket ind, is set in the mask.
BucketSelection ==
    (alive /\ ~empty(heap) /\ heap.m_buckets[0] = NULL) =>
        LET ind == BITS + 1 - msbSet(heap.m_bucketMask)
        IN  /\ ind \in 1..BITS
            /\ heap.m_buckets[ind] # NULL
            /\ \A j \in 1..(ind - 1) : heap.m_buckets[j] = NULL
            /\ Bit(heap.m_bucketMask, BITS - ind) = 1
            /\ BitOr(heap.m_bucketMask, Shl1(BITS - ind)) = heap.m_bucketMask

\* after a pop, bucket 0 is empty, the lowest occupied bucket is not bucket 1
\* and a higher bucket is occupied as well
SelectionAmongTwoBuckets ==
    /\ alive
    /\ op = "pop"
    /\ heap.m_buckets[0] = NULL
    /\ heap.m_buckets[1] = NULL
    /\ Cardinality({i \in 2..BITS : heap.m_buckets[i] # NULL}) = 2

\* C17: a pop with bucket 0 non-empty returns the value of the head of
\* bucket 0, removes just that node from bucket 0, lowers size() by one and
\* leaves m_minimum, m_bucketMask and the lists of buckets 1..BITS as they
\* were.
PopFastPathFrame ==
    [][(op' = "pop" /\ alive' /\ heap.m_buckets[0] # NULL) =>
         /\ ret' = heap.mem[heap.m_buckets[0]].value
         /\ popped'[Len(popped')].node = heap.m_buckets[0]
         /\ BucketList(heap', 0) = Tail(BucketList(heap, 0))
         /\ size(heap') = size(heap) - 1
         /\ heap'.m_minimum = heap.m_minimum
         /\ heap'.m_bucketMask = heap.m_bucketMask
         /\ \A i \in 1..BITS : BucketList(heap', i) = BucketList(heap, i)]_vars

\* a first pop took the head of bucket 0 (nothing was deleted), a node is
\* left in bucket 0 and another in a higher bucket
FastPathTaken ==
    /\ alive
    /\ op = "pop"
    /\ Len(popped) = 1
    /\ heap.deleted = <<>>
    /\ heap.m_buckets[0] # NULL
    /\ heap.m_bucketMask # 0

\* C18: a push of priority >= m_minimum links one new node holding the
\* value and the priority at the head of bucket i = msbSet(priority XOR
\* m_minimum), in front of the nodes already there, sets mask bit BITS - i
\* only if i # 0 and changes no other bit, raises size() by one and leaves
\* m_minimum and every other bucket as they were.
PushFrame ==
    [][(op' = "push" /\ alive') =>
         LET n == ret'
             arg == pushed'[Len(pushed')]
             i == msbSet(Xor(arg.priority, heap.m_minimum))
         IN  /\ n \notin DOMAIN heap.mem
             /\ heap'.mem[n].value = arg.value
             /\ heap'.mem[n].priority = arg.priority
             /\ BucketList(heap', i) = <<n>> \o BucketList(heap, i)
             /\ \A j \in (0..BITS) \ {i} : BucketList(heap', j) = BucketList(heap, j)
             /\ \A k \in 0..(BITS - 1) :
                   Bit(heap'.m_bucketMask, k) =
                      (IF i # 0 /\ k = BITS - i THEN 1 ELSE Bit(heap.m_bucketMask, k))
             /\ size(heap') = size(heap) + 1
             /\ heap'.m_minimum = heap.m_minimum]_vars

\* a push, after a pop had raised m_minimum, into a bucket that held a node
\* already
PushedOntoOccupiedBucket ==
    /\ alive
    /\ op = "push"
    /\ heap.m_minimum > 0
    /\ \E i \in 1..BITS : Len(BucketList(heap, i)) = 2 /\ heap.m_buckets[i] = ret

\* C20: in every bucket the head has prev == nullptr and no other node has,
\* each node's successor points back to it, and the list is acyclic and
\* ends in nullptr.
ListsWellFormed ==
    alive =>
        \A i \in 0..BITS :
            LET l == BucketList(heap, i)
            IN  /\ Cardinality(Range(l)) = Len(l)
                /\ Range(l) \subseteq DOMAIN heap.mem
                /\ \A k \in 1..Len(l) :
                      /\ heap.mem[l[k]].prev = (IF k = 1 THEN NULL ELSE l[k - 1])
                      /\ (heap.mem[l[k]].prev = NULL) <=> (l[k] = heap.m_buckets[i])
                      /\ heap.mem[l[k]].next = (IF k = Len(l) THEN NULL ELSE l[k + 1])

\* a pop unlinked the middle node of a list of three and re-inserted the
\* other two
InteriorNodeUnlinked ==
    /\ alive
    /\ op = "pop"
    /\ Len(pushed) = 3
    /\ msbSet(pushed[1].priority) = msbSet(pushed[2].priority)
    /\ msbSet(pushed[3].priority) = msbSet(pushed[2].priority)
    /\ popped = <<[value |-> pushed[2].value, priority |-> pushed[2].priority, node |-> 2]>>
    /\ moved = <<1, 0, 1>>

\* C14: a push of a priority below m_minimum and a pop on an empty heap are
\* stopped by an assertion before anything is changed: the heap is the same
\* after the call as before.
UncheckedCallsLeaveHeap ==
    [][op' \in {"push_below", "pop_empty"} => heap' = heap]_vars

\* C12: over any sequence of push, emplace, pop and top, every stack holds
\* the values pushed and not yet popped, latest first; pop() returns the
\* latest of them and removes exactly it; top() returns the same value and
\* leaves the contents and size() of the stack as they were.
StackLifo ==
    /\ [](\A i \in 1..NStacks : StackValues(stk, i) = hist[i])
    /\ [][call'.name = "pop" =>
            /\ call'.ret = Head(hist[call'.this])
            /\ StackValues(stk', call'.this) = Tail(StackValues(stk, call'.this))
            /\ StackSize(stk', call'.this) = StackSize(stk, call'.this) - 1]_vars
    /\ [][call'.name = "top" =>
            /\ call'.ret = Head(hist[call'.this])
            /\ StackValues(stk', call'.this) = StackValues(stk, call'.this)
            /\ StackSize(stk', call'.this) = StackSize(stk, call'.this)]_vars

\* C12 witness: a pop has returned a value pushed after a different value
\* that is still on the stack.
PoppedLatestOfTwo ==
    /\ call.name = "pop"
    /\ hist[call.this] # <<>>
    /\ Head(hist[call.this]) # call.ret

\* C19: for every Stack, size() is the number of elements linked in its list
\* and empty() is true exactly when size() is 0, self-assignment included.
StackCountConsistent ==
    \A i \in 1..NStacks :
        stk.S[i].constructed =>
            /\ StackSize(stk, i) = Len(StackElements(stk, i))
            /\ StackEmpty(stk, i) <=> (StackSize(stk, i) = 0)

\* C13: a copy construction or copy assignment from S gives a stack with the
\* values of S in the same order and leaves S as it was; a move construction
\* or move assignment from another stack S gives a stack with the former
\* values of S in the same order and leaves S empty with size() 0.
StackCopyMove ==
    /\ [][call'.name \in {"copy_construct", "copy_assign"} =>
            /\ StackValues(stk', call'.this) = StackValues(stk, call'.arg)
            /\ StackValues(stk', call'.arg) = StackValues(stk, call'.arg)
            /\ StackSize(stk', call'.arg) = StackSize(stk, call'.arg)]_vars
    /\ [][call'.name \in {"move_construct", "move_assign"} /\ call'.this # call'.arg =>
            /\ StackValues(stk', call'.this) = StackValues(stk, call'.arg)
            /\ StackValues(stk', call'.arg) = <<>>
            /\ StackSize(stk', call'.arg) = 0]_vars
====
